---- MODULE Spec2Model ----
(***************************************************************************)
(* Word-level n-gram lyric generator (lyric_generation.py): train_lm and   *)
(* generate_text.  A Python str is a sequence of one-character strings, a  *)
(* probability cnt/total is the pair <<cnt, total>>, a Counter is the      *)
(* sequence of its <<word, count>> entries in insertion order.             *)
(***************************************************************************)
EXTENDS Integers, Sequences, FiniteSets, TLC

VARIABLES lyrics, n, n_words, pc, model, lm, history, text, i, out

vars == <<lyrics, n, n_words, pc, model, lm, history, text, i, out>>

(***************************************************************************)
(* Bounds of the checked inputs.                                           *)
(***************************************************************************)
MaxDocLen == 3
MaxN == 3
MaxNWords == 3

(***************************************************************************)
(* Characters.                                                             *)
(***************************************************************************)
SP == " "
NL == "\n"
TAB == "\t"
Tilde == "~"
LPar == "("
RPar == ")"
LBr == "["
RBr == "]"

Alphabet == {"a", LPar, RPar, LBr, SP, NL}

(***************************************************************************)
(* str helpers.                                                            *)
(***************************************************************************)
\* sub in s
Contains(s, sub) ==
    \E k \in 0..(Len(s) - Len(sub)) : SubSeq(s, k + 1, k + Len(sub)) = sub

\* c in s for a single character c
HasChar(s, c) == \E k \in 1..Len(s) : s[k] = c

\* s.split(sep) / re.split('a|b|c', s): cut at every single separator
\* character, keeping the empty pieces.
RECURSIVE Split(_, _)
Split(s, seps) ==
    IF s = <<>> THEN << <<>> >>
    ELSE LET rest == Split(Tail(s), seps)
         IN  IF Head(s) \in seps
             THEN << <<>> >> \o rest
             ELSE << <<Head(s)>> \o Head(rest) >> \o Tail(rest)

\* " ".join(ws)
RECURSIVE Join(_)
Join(ws) ==
    IF ws = <<>> THEN <<>>
    ELSE IF Len(ws) = 1 THEN ws[1]
    ELSE ws[1] \o <<SP>> \o Join(Tail(ws))

\* s * k
RECURSIVE Repeat(_, _)
Repeat(s, k) == IF k <= 0 THEN <<>> ELSE s \o Repeat(s, k - 1)

\* "~ " * (n - 1)
InitHistory(order) == Repeat(<<Tilde, SP>>, order - 1)

\* The history slide of train_lm and generate_text.
Slide(h, word) ==
    IF h[Len(h)] = SP
    THEN Join(Tail(Split(h, {SP}))) \o word
    ELSE Join(Tail(Split(h, {SP}))) \o <<SP>> \o word

(***************************************************************************)
(* train_lm.                                                               *)
(***************************************************************************)
\* re.split(' |\n|\t', s)
Tokenize(s) == Split(s, {SP, NL, TAB})

\* "[" in word or "]" in word or "" == word
SkipEmptyOnly(word) == word = <<>>

Skip(word) == HasChar(word, LBr) \/ HasChar(word, RBr) \/ word = <<>>

\* counter[word] += 1
CounterAdd(counter, word) ==
    IF \E k \in 1..Len(counter) : counter[k][1] = word
    THEN [k \in 1..Len(counter) |->
            IF counter[k][1] = word
            THEN <<word, counter[k][2] + 1>> ELSE counter[k]]
    ELSE Append(counter, <<word, 1>>)

\* model[history][word] += 1 on a defaultdict(Counter)
ModelAdd(m, h, word) ==
    [k \in DOMAIN m \cup {h} |->
        IF k = h
        THEN CounterAdd(IF h \in DOMAIN m THEN m[h] ELSE <<>>, word)
        ELSE m[k]]

EmptyModel == [k \in {} |-> <<>>]

\* The loop over the words of one song (a tuple item).
RECURSIVE TrainWords(_, _, _)
TrainWords(m, words, h) ==
    IF words = <<>> THEN m
    ELSE LET word == Head(words)
         IN  IF Skip(word)
             THEN TrainWords(m, Tail(words), h)
             ELSE TrainWords(ModelAdd(m, h, word), Tail(words), Slide(h, word))

\* The loop "for item in tokens": the history is set anew for every item;
\* a tuple item is a whole song, a str item is one token of the only song.
RECURSIVE TrainItems(_, _, _, _)
TrainItems(m, items, isTuple, order) ==
    IF items = <<>> THEN m
    ELSE LET item == Head(items)
             h == InitHistory(order)
         IN  IF isTuple
             THEN TrainItems(TrainWords(m, item, h), Tail(items), isTuple, order)
             ELSE IF Skip(item)
                  THEN TrainItems(m, Tail(items), isTuple, order)
                  ELSE TrainItems(ModelAdd(m, h, item), Tail(items), isTuple, order)

\* tokens of train_lm: a list of tuples for a list, a flat list for a str.
Tokens(lyr) ==
    IF lyr.isList
    THEN [k \in 1..Len(lyr.docs) |-> Tokenize(lyr.docs[k])]
    ELSE Tokenize(lyr.docs[1])

\* The defaultdict(Counter) after the loop over the tokens.
TrainCounts(lyr, order) ==
    TrainItems(EmptyModel, Tokens(lyr), lyr.isList, order)

\* sum(counter.values())
RECURSIVE CounterTotal(_)
CounterTotal(counter) ==
    IF counter = <<>> THEN 0
    ELSE counter[1][2] + CounterTotal(Tail(counter))

\* counter.most_common(): descending count, ties in insertion order.
RECURSIVE InsertByCount(_, _)
InsertByCount(sorted, e) ==
    IF sorted = <<>> THEN <<e>>
    ELSE IF Head(sorted)[2] >= e[2]
         THEN <<Head(sorted)>> \o InsertByCount(Tail(sorted), e)
         ELSE <<e>> \o sorted

RECURSIVE MostCommon(_)
MostCommon(counter) ==
    IF counter = <<>> THEN <<>>
    ELSE InsertByCount(MostCommon(SubSeq(counter, 1, Len(counter) - 1)),
                       counter[Len(counter)])

NormalizeByEntries(counter) ==
    LET common == MostCommon(counter)
    IN  [k \in 1..Len(common) |-> <<common[k][1], <<common[k][2], Len(counter)>>>>]

normalize(counter) ==
    LET total == CounterTotal(counter)
        common == MostCommon(counter)
    IN  [k \in 1..Len(common) |-> <<common[k][1], <<common[k][2], total>>>>]

train_lm(lyr, order) ==
    LET counts == TrainCounts(lyr, order)
    IN  [h \in DOMAIN counts |-> normalize(counts[h])]

(***************************************************************************)
(* generate_word / generate_text.                                          *)
(***************************************************************************)
\* The words generate_word can return: '~' for an unknown history, else
\* any word of the history's list (np.random.choice, all weights > 0).
GenerateWordNoFallback(m, h) ==
    IF h \notin DOMAIN m THEN {<<>>}
    ELSE {m[h][k][1] : k \in 1..Len(m[h])}

generate_word(m, h) ==
    IF h \notin DOMAIN m THEN {<<Tilde>>}
    ELSE {m[h][k][1] : k \in 1..Len(m[h])}

\* if "(" in word: word = word[1:], over the whole buffer
StripOpenDropEmptied(t) ==
    SelectSeq([k \in 1..Len(t) |->
                  IF HasChar(t[k], LPar) THEN Tail(t[k]) ELSE t[k]],
              LAMBDA w : w # <<>>)

StripOpen(t) ==
    [k \in 1..Len(t) |-> IF HasChar(t[k], LPar) THEN Tail(t[k]) ELSE t[k]]

\* if ")" in word: word = word[:-1], over the whole buffer
StripClose(t) ==
    [k \in 1..Len(t) |->
        IF HasChar(t[k], RPar) THEN SubSeq(t[k], 1, Len(t[k]) - 1) ELSE t[k]]

\* Line-break recovery of one word against the songs of a list: the test
\* "\n" + word in item and word[0] != "\n" reads word[0] only when the
\* substring is found, and word[0] of an empty word raises IndexError.
RECURSIVE BreakInList(_, _)
BreakInList(word, items) ==
    IF items = <<>> THEN [raised |-> FALSE, word |-> word]
    ELSE IF Contains(Head(items), <<NL>> \o word)
         THEN IF word = <<>>
              THEN [raised |-> TRUE, word |-> word]
              ELSE IF word[1] # NL
                   THEN BreakInList(<<NL>> \o word, Tail(items))
                   ELSE BreakInList(word, Tail(items))
         ELSE BreakInList(word, Tail(items))

\* Line-break recovery of one word against a single song.
BreakInStr(word, original) ==
    IF Contains(original, <<NL>> \o word)
    THEN [raised |-> FALSE, word |-> <<NL>> \o word]
    ELSE [raised |-> FALSE, word |-> word]

BreakWord(word, lyr) ==
    IF lyr.isList THEN BreakInList(word, lyr.docs)
    ELSE BreakInStr(word, lyr.docs[1])

(***************************************************************************)
(* Inputs.                                                                 *)
(***************************************************************************)
RECURSIVE StrsOfLen(_)
StrsOfLen(k) ==
    IF k = 0 THEN {<<>>}
    ELSE {<<c>> \o s : c \in Alphabet, s \in StrsOfLen(k - 1)}

Docs == UNION {StrsOfLen(k) : k \in 0..MaxDocLen}

\* "I love cats I love dogs"
ScenarioDoc ==
    <<"I", SP, "l", "o", "v", "e", SP, "c", "a", "t", "s", SP,
      "I", SP, "l", "o", "v", "e", SP, "d", "o", "g", "s">>

\* Songs with tabs, closing brackets, annotations and parenthesised words.
ExtraDocs ==
    { ScenarioDoc,
      <<LBr, "c", RBr, NL, LPar, "a", RPar, SP, "a", LPar, "b", TAB, "b", RPar, NL, "b", RPar>>,
      <<"a", RBr, SP, "b", NL, LPar, NL, "b", SP, LPar, "b">> }

\* Songs that are put together into albums of two.
PairDocs ==
    { <<"a">>, <<"b">>, <<NL, "a">>, <<"a", NL, "b">>, <<"a", NL, LPar>>,
      <<"a", SP, NL, "a">>, <<LBr, NL, Tilde, RBr>> }

Corpora ==
    {[isList |-> FALSE, docs |-> <<d>>] : d \in Docs \cup ExtraDocs}
    \cup {[isList |-> TRUE, docs |-> <<d>>] : d \in Docs \cup ExtraDocs}
    \cup {[isList |-> TRUE, docs |-> <<d1, d2>>] : d1 \in PairDocs, d2 \in PairDocs}
    \cup {[isList |-> TRUE, docs |-> <<>>]}

(***************************************************************************)
(* The state machine: train_lm(lyrics, n), then                            *)
(* generate_text(lyrics, lm, n, n_words).                                  *)
(***************************************************************************)
Init ==
    /\ lyrics \in Corpora
    /\ n \in 2..MaxN
    /\ n_words \in 0..MaxNWords
    /\ pc = "train"
    /\ model = EmptyModel
    /\ lm = EmptyModel
    /\ history = <<>>
    /\ text = <<>>
    /\ i = 0
    /\ out = <<>>

\* train_lm: count, then normalize.
Train ==
    /\ pc = "train"
    /\ model' = TrainCounts(lyrics, n)
    /\ lm' = train_lm(lyrics, n)
    /\ pc' = "start"
    /\ UNCHANGED <<lyrics, n, n_words, history, text, i, out>>

\* generate_text: history = "~ " * (n - 1); text = []
GenerateStart ==
    /\ pc = "start"
    /\ history' = InitHistory(n)
    /\ text' = <<>>
    /\ pc' = "sample"
    /\ UNCHANGED <<lyrics, n, n_words, model, lm, i, out>>

\* One iteration of the sampling loop.
Sample ==
    /\ pc = "sample"
    /\ Len(text) < n_words
    /\ \E word \in generate_word(lm, history) :
          /\ text' = Append(text, word)
          /\ history' = Slide(history, word)
    /\ UNCHANGED <<lyrics, n, n_words, pc, model, lm, i, out>>

\* The pass that removes opening parentheses.
StripOpenPass ==
    /\ pc = "sample"
    /\ Len(text) >= n_words
    /\ text' = StripOpen(text)
    /\ pc' = "close"
    /\ UNCHANGED <<lyrics, n, n_words, model, lm, history, i, out>>

\* The pass that removes closing parentheses.
StripClosePass ==
    /\ pc = "close"
    /\ text' = StripClose(text)
    /\ i' = 1
    /\ pc' = "break"
    /\ UNCHANGED <<lyrics, n, n_words, model, lm, history, out>>

\* One iteration of the line-break loop, for text[i] (i counts from 0).
RecoverLineBreak ==
    /\ pc = "break"
    /\ i < Len(text)
    /\ ~BreakWord(text[i + 1], lyrics).raised
    /\ text' = [text EXCEPT ![i + 1] = BreakWord(text[i + 1], lyrics).word]
    /\ i' = i + 1
    /\ UNCHANGED <<lyrics, n, n_words, pc, model, lm, history, out>>

\* The same iteration when text[i][0] raises IndexError.
RecoverLineBreakRaise ==
    /\ pc = "break"
    /\ i < Len(text)
    /\ BreakWord(text[i + 1], lyrics).raised
    /\ pc' = "raised"
    /\ UNCHANGED <<lyrics, n, n_words, model, lm, history, text, i, out>>

\* print(" ".join(text))
Emit ==
    /\ pc = "break"
    /\ i >= Len(text)
    /\ out' = Join(text)
    /\ pc' = "done"
    /\ UNCHANGED <<lyrics, n, n_words, model, lm, history, text, i>>

Next ==
    \/ Train
    \/ GenerateStart
    \/ Sample
    \/ StripOpenPass
    \/ StripClosePass
    \/ RecoverLineBreak
    \/ RecoverLineBreakRaise
    \/ Emit

Spec == Init /\ [][Next]_vars

(***************************************************************************)
(* Vocabulary of the properties.                                           *)
(***************************************************************************)
\* The space-separated pieces of a history, and those that are words.
Pieces(h) == Split(h, {SP})
Words(h) == SelectSeq(Pieces(h), LAMBDA w : w # <<>>)

\* The entries of a history's probability list.
Entries(h) == {lm[h][k] : k \in 1..Len(lm[h])}

RECURSIVE SumOfCounts(_)
SumOfCounts(list) ==
    IF list = <<>> THEN 0 ELSE list[1][2][1] + SumOfCounts(Tail(list))

\* The tokens of song d that training is to count.
Kept(d) == SelectSeq(Tokenize(lyrics.docs[d]), LAMBDA w : ~Skip(w))

\* A token of the corpus that training is to skip.
HasSkippedToken(pred(_)) ==
    \E d \in 1..Len(lyrics.docs) :
        \E k \in 1..Len(Tokenize(lyrics.docs[d])) : pred(Tokenize(lyrics.docs[d])[k])

\* The (n-1) kept tokens before the j-th kept token of song d, left-padded
\* with '~' and joined by single spaces.
Padded(d) == [k \in 1..(n - 1) |-> <<Tilde>>] \o Kept(d)
PrecedingWords(d, j) == Join(SubSeq(Padded(d), j, j + n - 2))

Occurrences ==
    UNION {{<<d, j>> : j \in 1..Len(Kept(d))} : d \in 1..Len(lyrics.docs)}
OccurrencesOf(h) == {o \in Occurrences : PrecedingWords(o[1], o[2]) = h}
ExpectedEntries(h) ==
    {<<Kept(o[1])[o[2]],
       <<Cardinality({q \in OccurrencesOf(h) : Kept(q[1])[q[2]] = Kept(o[1])[o[2]]}),
         Cardinality(OccurrencesOf(h))>>>> : o \in OccurrencesOf(h)}

\* The model of "I love cats I love dogs" with n = 2.
ScenarioModel ==
    (<<Tilde>> :> {<< <<"I">>, <<2, 2>> >>})
    @@ (<<"I">> :> {<< <<"l", "o", "v", "e">>, <<2, 2>> >>})
    @@ (<<"l", "o", "v", "e">> :>
            {<< <<"c", "a", "t", "s">>, <<1, 2>> >>, << <<"d", "o", "g", "s">>, <<1, 2>> >>})
    @@ (<<"c", "a", "t", "s">> :> {<< <<"I">>, <<1, 1>> >>})

(***************************************************************************)
(* Properties.                                                             *)
(***************************************************************************)

\* C1: train_lm counts every non-empty, non-bracketed token under the
\* history made of the (n-1) kept tokens before it in its document,
\* left-padded with '~' and joined by single spaces, and under no other
\* key; "I love cats I love dogs" with n = 2 gives "~" -> {I: 1},
\* "I" -> {love: 1}, "love" -> {cats: 1/2, dogs: 1/2}, "cats" -> {I: 1}.
C1_CountsUnderPrecedingWords ==
    pc # "train" =>
        /\ DOMAIN lm = {PrecedingWords(o[1], o[2]) : o \in Occurrences}
        /\ \A h \in DOMAIN lm :
              /\ Entries(h) = ExpectedEntries(h)
              /\ Len(lm[h]) = Cardinality(Entries(h))
        /\ (lyrics.docs = <<ScenarioDoc>> /\ n = 2) =>
              /\ DOMAIN lm = DOMAIN ScenarioModel
              /\ \A h \in DOMAIN lm : Entries(h) = ScenarioModel[h]

\* C2: at every step of generate_text, initially and after every
\* sample-and-slide iteration, the history holds exactly (n-1) words: the
\* window never grows or shrinks.
C2_HistoryKeepsOrderMinusOneWords ==
    pc = "sample" => Len(Words(history)) = n - 1

\* C3: every history of the trained model has a non-empty list in which
\* each probability is the word's count after that history over the total
\* count of that history, so the probabilities of a history sum to 1.
C3_ProbabilitiesNormalized ==
    pc # "train" =>
        /\ DOMAIN lm = DOMAIN model
        /\ \A h \in DOMAIN lm :
              /\ Len(lm[h]) >= 1
              /\ Len(lm[h]) = Len(model[h])
              /\ \A k \in 1..Len(lm[h]) :
                    /\ lm[h][k][2][2] = CounterTotal(model[h])
                    /\ lm[h][k][2][1] >= 1
                    /\ <<lm[h][k][1], lm[h][k][2][1]>> \in
                          {model[h][j] : j \in 1..Len(model[h])}
              /\ SumOfCounts(lm[h]) = lm[h][1][2][2]

C3_TwoContinuations ==
    /\ pc = "start"
    /\ \E h \in DOMAIN lm :
          Len(lm[h]) >= 2 /\ lm[h][1][2][1] > lm[h][2][2][1]

\* C4: the sampling loop leaves exactly n_words tokens in the buffer, and
\* the parenthesis and line-break passes change tokens without adding or
\* removing one, so the joined buffer has n_words entries.
C4_BufferHasNWords ==
    /\ pc = "sample" => Len(text) <= n_words
    /\ pc \in {"close", "break", "raised", "done"} => Len(text) = n_words

C4_EmptiedTokenKept ==
    /\ pc = "done"
    /\ Len(text) >= 2
    /\ \E k \in 1..Len(text) : text[k] = <<>>
    /\ \E k \in 1..Len(text) : text[k] # <<>> /\ text[k][1] = NL

\* C5: for a history the model does not hold, generate_word returns '~'
\* without error and the '~' is slid into the history like a drawn word;
\* with the empty model every generated position is '~'.
C5_UnknownHistoryYieldsTilde ==
    /\ [][(pc = "sample" /\ Len(text) < n_words /\ history \notin DOMAIN lm) =>
             /\ text' = Append(text, <<Tilde>>)
             /\ Words(history')[Len(Words(history'))] = <<Tilde>>
             /\ pc' = "sample"]_vars
    /\ [](pc = "sample" /\ lm = EmptyModel =>
             \A k \in 1..Len(text) : text[k] = <<Tilde>>)

C5_TildesFromEmptyModel ==
    /\ pc = "sample"
    /\ lm = EmptyModel
    /\ Len(text) >= 2
    /\ \A k \in 1..Len(text) : text[k] = <<Tilde>>

\* C6: no empty token and no token with '[' or ']' is in the trained model:
\* every continuation word is non-empty and bracket-free, no history key
\* holds a bracket, and the words of a history key are '~' or counted words.
C6_SkippedTokensNotInModel ==
    pc # "train" =>
        \A h \in DOMAIN lm :
            /\ ~HasChar(h, LBr) /\ ~HasChar(h, RBr)
            /\ \A e \in Entries(h) :
                  e[1] # <<>> /\ ~HasChar(e[1], LBr) /\ ~HasChar(e[1], RBr)
            /\ \A k \in 1..Len(Words(h)) :
                  \/ Words(h)[k] = <<Tilde>>
                  \/ \E g \in DOMAIN lm : \E e \in Entries(g) : e[1] = Words(h)[k]

C6_SkippedAndCounted ==
    /\ pc = "start"
    /\ HasSkippedToken(LAMBDA w : HasChar(w, LBr))
    /\ HasSkippedToken(LAMBDA w : w = <<>>)
    /\ \E h \in DOMAIN lm : h # InitHistory(n)

\* C7: parenthesis stripping removes from a generated word one leading '('
\* if the word starts with one and one trailing ')' if the word ends with
\* one, and no other character.
LeadingStripped(w) == IF w # <<>> /\ w[1] = LPar THEN Tail(w) ELSE w
TrailingStripped(w) ==
    IF w # <<>> /\ w[Len(w)] = RPar THEN SubSeq(w, 1, Len(w) - 1) ELSE w

C7_OnlyBoundaryParenthesesRemoved ==
    [][/\ (pc = "sample" /\ pc' = "close") =>
              text' = [k \in 1..Len(text) |-> LeadingStripped(text[k])]
       /\ (pc = "close" /\ pc' = "break") =>
              text' = [k \in 1..Len(text) |-> TrailingStripped(text[k])]]_vars

\* C8: line-break recovery prefixes the word at position i >= 1 with "\n"
\* exactly when "\n" + word occurs in some document of the corpus and the
\* word does not begin with "\n"; position 0 is never prefixed and a word
\* gets one prefix at most.
BreakExpected(w) ==
    IF /\ \E d \in 1..Len(lyrics.docs) : Contains(lyrics.docs[d], <<NL>> \o w)
       /\ ~(w # <<>> /\ w[1] = NL)
    THEN <<NL>> \o w
    ELSE w

C8_LineBreakExactlyWhenFound ==
    [][(pc = "break" /\ i < Len(text)) =>
          /\ i >= 1
          /\ text' = [text EXCEPT ![i + 1] = BreakExpected(text[i + 1])]]_vars

\* C9: train_lm(s, n) of a document string s is the model train_lm([s], n)
\* of the one-document collection.
C9_StringTrainsAsListOfOne ==
    (pc # "train" /\ ~lyrics.isList) =>
        lm = train_lm([isList |-> TRUE, docs |-> lyrics.docs], n)

\* C10: generate_text never raises: the sampling loop and the
\* post-processing passes finish for every corpus and its trained model,
\* also when a generated word is only parentheses.
C10_GenerateTextNeverRaises == pc # "raised"

====
